---------------------------- MODULE Spec2Model ----------------------------
(***************************************************************************)
(* Model of the data-fetch-and-normalize layer of the FDA Drug Safety      *)
(* Dashboard (src/Drug-Safety-Dashboard.py): the HTTP client _call with    *)
(* its urllib3 Retry policy, the three fetchers get_reactions,             *)
(* get_timeline and get_geo, and the st.cache_data(ttl=600) wrapper.       *)
(*                                                                         *)
(* Python strings are TLA+ strings; str.title/lower/upper are computed     *)
(* character by character.  Python's None is the value None below.  A      *)
(* (DataFrame, err) return value is a record [rows, err].  Latitudes and   *)
(* longitudes are kept in hundredths of a degree.  Upstream bodies follow  *)
(* the openFDA shape: a list of JSON objects.                              *)
(***************************************************************************)
EXTENDS Integers, Sequences, FiniteSets, TLC

VARIABLES
    \* one fetcher applied to one upstream answer (SpecFetch)
    qtype,      \* which fetcher is being exercised
    resp,       \* the final HTTP outcome SESSION.get hands to _call
    data,       \* the "results" list of the upstream body
    year_read,  \* datetime.now().year as read by get_timeline
    pc_f,       \* "upstream" while the answer is assembled, "returned" after
    out,        \* the fetcher's return value
    \* one invocation of _call, request by request (SpecCall)
    pc,         \* "idle", "waiting", "backoff", "done"
    total,      \* Retry.total still available
    sent,       \* requests put on the wire by this invocation
    waited,     \* seconds the pending request has been waiting
    last,       \* outcome of the latest attempt
    resent_after, \* the outcome that the latest re-send followed
    all503,     \* every attempt so far was answered with 503
    ret,        \* the value _call returned
    \* the cached fetchers over time (SpecCache)
    clock,      \* seconds of wall-clock time since the process started
    cache,      \* st.cache_data entries, per fetcher and term
    lastcomp,   \* per key: the latest call that ran the fetcher
    lastcall,   \* per key: the latest call of any kind
    calls,      \* calls made so far
    ev          \* the latest call: key, result, network use

fetch_vars == <<qtype, resp, data, year_read, pc_f, out>>
call_vars  == <<pc, total, sent, waited, last, resent_after, all503, ret>>
cache_vars == <<clock, cache, lastcomp, lastcall, calls, ev>>
vars == <<fetch_vars, call_vars, cache_vars>>

None == "None"

----------------------------------------------------------------------------
(* Python string methods *)

ASCII_UPPER == "ABCDEFGHIJKLMNOPQRSTUVWXYZ"
ASCII_LOWER == "abcdefghijklmnopqrstuvwxyz"
ASCII_DIGIT == "0123456789"

UpperChars == {SubSeq(ASCII_UPPER, i, i) : i \in 1..Len(ASCII_UPPER)}
LowerChars == {SubSeq(ASCII_LOWER, i, i) : i \in 1..Len(ASCII_LOWER)}
DigitChars == {SubSeq(ASCII_DIGIT, i, i) : i \in 1..Len(ASCII_DIGIT)}

ToLowerMap ==
    [c \in UpperChars |->
        LET i == CHOOSE j \in 1..Len(ASCII_UPPER) : SubSeq(ASCII_UPPER, j, j) = c
        IN  SubSeq(ASCII_LOWER, i, i)]

ToUpperMap ==
    [c \in LowerChars |->
        LET i == CHOOSE j \in 1..Len(ASCII_LOWER) : SubSeq(ASCII_LOWER, j, j) = c
        IN  SubSeq(ASCII_UPPER, i, i)]

DigitValue ==
    [c \in DigitChars |->
        (CHOOSE j \in 1..Len(ASCII_DIGIT) : SubSeq(ASCII_DIGIT, j, j) = c) - 1]

LowerChar(c) == IF c \in UpperChars THEN ToLowerMap[c] ELSE c
UpperChar(c) == IF c \in LowerChars THEN ToUpperMap[c] ELSE c
IsCased(c) == c \in UpperChars \cup LowerChars

RECURSIVE Lower(_)
Lower(s) ==
    IF s = "" THEN "" ELSE LowerChar(SubSeq(s, 1, 1)) \o Lower(SubSeq(s, 2, Len(s)))

RECURSIVE Upper(_)
Upper(s) ==
    IF s = "" THEN "" ELSE UpperChar(SubSeq(s, 1, 1)) \o Upper(SubSeq(s, 2, Len(s)))

\* str.title(): a cased character is upper-cased when it follows an uncased
\* one (or starts the string) and lower-cased when it follows a cased one.
RECURSIVE TitleFrom(_, _)
TitleFrom(s, prevCased) ==
    IF s = "" THEN ""
    ELSE LET c == SubSeq(s, 1, 1)
         IN  (IF prevCased THEN LowerChar(c) ELSE UpperChar(c))
                 \o TitleFrom(SubSeq(s, 2, Len(s)), IsCased(c))

Title(s) == TitleFrom(s, FALSE)

----------------------------------------------------------------------------
(* Constants of the program *)

NON_SIDE_EFFECTS == {
    "drug ineffective", "off label use", "product use in unapproved indication",
    "inappropriate schedule of product administration",
    "wrong technique in product usage process",
    "drug administered to patient of inappropriate age",
    "drug dose omission", "expired product administered",
    "product quality issue", "intentional product misuse",
    "drug dispensing error", "drug interaction", "no adverse event",
    "product substitution issue", "drug administration error",
    "incorrect dose administered", "patient did not respond to treatment",
    "condition aggravated", "therapeutic response unexpected",
    "drug use for unknown indication" }

ISO2_COORDS ==
    "US" :> <<3709, -9571>> @@ "GB" :> <<5537, -343>> @@ "CA" :> <<5613, -10634>> @@
    "FR" :> <<4622, 221>> @@ "DE" :> <<5116, 1045>> @@ "IT" :> <<4187, 1256>> @@
    "ES" :> <<4046, -374>> @@ "JP" :> <<3620, 13825>> @@ "CN" :> <<3586, 10419>> @@
    "IN" :> <<2059, 7896>> @@ "BR" :> <<-1423, -5192>> @@ "AU" :> <<-2527, 13377>> @@
    "RU" :> <<6152, 10531>> @@ "ZA" :> <<-3055, 2293>> @@ "MX" :> <<2363, -10255>> @@
    "KR" :> <<3590, 12776>> @@ "NL" :> <<5213, 529>> @@ "SE" :> <<6012, 1864>> @@
    "CH" :> <<4681, 822>> @@ "TR" :> <<3896, 3524>> @@ "BE" :> <<5050, 446>> @@
    "AR" :> <<-3841, -6361>> @@ "PL" :> <<5191, 1914>> @@ "TH" :> <<1587, 10099>> @@
    "PT" :> <<3939, -822>> @@ "AT" :> <<4751, 1455>> @@ "DK" :> <<5626, 950>> @@
    "NO" :> <<6047, 846>> @@ "FI" :> <<6192, 2574>> @@ "NZ" :> <<-4090, 17488>> @@
    "IL" :> <<3104, 3485>> @@ "SG" :> <<135, 10381>> @@ "IE" :> <<5341, -824>> @@
    "GR" :> <<3907, 2182>> @@ "HU" :> <<4716, 1950>> @@ "CZ" :> <<4981, 1547>> @@
    "RO" :> <<4594, 2496>> @@ "SA" :> <<2388, 4507>> @@ "MY" :> <<421, 10197>> @@
    "PH" :> <<1287, 12177>> @@ "NG" :> <<908, 867>> @@ "EG" :> <<2682, 3080>> @@
    "UA" :> <<4837, 3116>>

ISO2_TO_NAME ==
    "US" :> "United States" @@ "GB" :> "United Kingdom" @@ "CA" :> "Canada" @@
    "FR" :> "France" @@ "DE" :> "Germany" @@ "JP" :> "Japan" @@
    "AU" :> "Australia" @@ "IT" :> "Italy" @@ "ES" :> "Spain" @@
    "NL" :> "Netherlands" @@ "SE" :> "Sweden" @@ "CH" :> "Switzerland" @@
    "BE" :> "Belgium" @@ "CN" :> "China" @@ "IN" :> "India" @@
    "BR" :> "Brazil" @@ "RU" :> "Russia" @@ "MX" :> "Mexico" @@
    "KR" :> "South Korea" @@ "TR" :> "Turkey" @@ "AR" :> "Argentina" @@
    "PL" :> "Poland" @@ "SG" :> "Singapore" @@ "IE" :> "Ireland" @@
    "GR" :> "Greece" @@ "HU" :> "Hungary"

HEAD_ROWS == 8
MIN_YEAR == 2000
DATE_LEN == 8
YEAR_LEN == 4

----------------------------------------------------------------------------
(* _call: what it makes of the final outcome of SESSION.get *)

Response(status) == [kind |-> "response", status |-> status, detail |-> ""]
Raised(detail)   == [kind |-> "exception", status |-> 0, detail |-> detail]

_call(r, results) ==
    IF r.kind = "exception"
    THEN [data |-> <<>>, err |-> "network_error: " \o r.detail]
    ELSE IF r.status = 200 THEN [data |-> results, err |-> None]
    ELSE IF r.status = 404 THEN [data |-> <<>>, err |-> "no_data"]
    ELSE [data |-> <<>>, err |-> "server_error_" \o ToString(r.status)]

\* Python truthiness of an error value and of a list
Truthy(e) == e # None /\ e # ""

----------------------------------------------------------------------------
(* get_reactions *)

\* head() that forgets to truncate
head_all(df, n) == df

head(df, n) == SubSeq(df, 1, IF Len(df) < n THEN Len(df) ELSE n)

\* the mask without .str.lower(): the title-cased name is looked up as is
IsNonSideEffect_CaseSensitive(reaction) == reaction \in NON_SIDE_EFFECTS

\* df["Reaction"].str.lower().isin(NON_SIDE_EFFECTS)
IsNonSideEffect(reaction) == Lower(reaction) \in NON_SIDE_EFFECTS

\* rename term/count to Reaction/Reports and title-case the name
ReactionFrame(results) ==
    [i \in 1..Len(results) |->
        [Reaction |-> Title(results[i].term), Reports |-> results[i].count]]

Masked(df) == SelectSeq(df, LAMBDA row : ~IsNonSideEffect(row.Reaction))

get_reactions(r, results) ==
    LET c == _call(r, results)
    IN  IF Truthy(c.err) \/ c.data = <<>>
        THEN [rows |-> <<>>, err |-> c.err]
        ELSE [rows |-> head(Masked(ReactionFrame(c.data)), HEAD_ROWS), err |-> None]

----------------------------------------------------------------------------
(* get_timeline *)

\* JSON values a record can hold under "receivedate"; a record without the
\* key is JAbsent, for which record.get("receivedate", "") gives "".
JStr(s)  == [t |-> "str", s |-> s]
JNull    == [t |-> "null", s |-> ""]
JNum     == [t |-> "num", s |-> ""]
JAbsent  == [t |-> "absent", s |-> ""]

RECURSIVE LStrip(_)
LStrip(s) == IF s # "" /\ SubSeq(s, 1, 1) = " " THEN LStrip(SubSeq(s, 2, Len(s))) ELSE s

RECURSIVE RStrip(_)
RStrip(s) ==
    IF s # "" /\ SubSeq(s, Len(s), Len(s)) = " "
    THEN RStrip(SubSeq(s, 1, Len(s) - 1)) ELSE s

\* the digits of a literal, "_" allowed singly between two digits
RECURSIVE DigitsOk(_, _)
DigitsOk(s, prevDigit) ==
    IF s = "" THEN prevDigit
    ELSE LET c == SubSeq(s, 1, 1)
         IN  IF c \in DigitChars THEN DigitsOk(SubSeq(s, 2, Len(s)), TRUE)
             ELSE IF c = "_" THEN prevDigit /\ DigitsOk(SubSeq(s, 2, Len(s)), FALSE)
             ELSE FALSE

RECURSIVE DigitsValue(_, _)
DigitsValue(s, acc) ==
    IF s = "" THEN acc
    ELSE LET c == SubSeq(s, 1, 1)
         IN  DigitsValue(SubSeq(s, 2, Len(s)),
                         IF c = "_" THEN acc ELSE 10 * acc + DigitValue[c])

\* int(s) for a string: [ok |-> TRUE, v |-> n], or ok = FALSE for ValueError
int(s) ==
    LET t    == RStrip(LStrip(s))
        sign == IF t # "" /\ SubSeq(t, 1, 1) \in {"+", "-"} THEN SubSeq(t, 1, 1) ELSE ""
        body == IF sign = "" THEN t ELSE SubSeq(t, 2, Len(t))
    IN  IF body # "" /\ DigitsOk(body, FALSE)
        THEN [ok |-> TRUE,
              v |-> IF sign = "-" THEN 0 - DigitsValue(body, 0) ELSE DigitsValue(body, 0)]
        ELSE [ok |-> FALSE, v |-> 0]

\* an except clause that names ValueError alone
Caught_ValueErrorOnly(exc) == exc = "ValueError"

\* the except clause of the loop body
Caught(exc) == exc \in {"ValueError", "TypeError"}

\* One pass of the loop body for a record: the year appended, nothing
\* appended, or the exception raised inside the try block.
RecordYear(record, now) ==
    LET raw_date == IF record.t = "absent" THEN JStr("") ELSE record
    IN  IF raw_date.t # "str" THEN [kind |-> "raise", year |-> 0, exc |-> "TypeError"]
        ELSE IF Len(raw_date.s) # DATE_LEN THEN [kind |-> "none", year |-> 0, exc |-> ""]
        ELSE LET year == int(SubSeq(raw_date.s, 1, YEAR_LEN))
             IN  IF ~year.ok THEN [kind |-> "raise", year |-> 0, exc |-> "ValueError"]
                 ELSE IF MIN_YEAR <= year.v /\ year.v <= now
                      THEN [kind |-> "year", year |-> year.v, exc |-> ""]
                      ELSE [kind |-> "none", year |-> 0, exc |-> ""]

\* the list `rows` after the loop
YearRows(results, now) ==
    LET step(i) == RecordYear(results[i], now)
        kept    == SelectSeq([i \in 1..Len(results) |-> step(i)],
                             LAMBDA x : x.kind = "year")
    IN  [i \in 1..Len(kept) |-> kept[i].year]

\* the first exception the except clause lets through, if any
Uncaught(results, now) ==
    LET bad == {i \in 1..Len(results) :
                    /\ RecordYear(results[i], now).kind = "raise"
                    /\ ~Caught(RecordYear(results[i], now).exc)}
    IN  IF bad = {} THEN None
        ELSE RecordYear(results[CHOOSE i \in bad : \A j \in bad : i <= j], now).exc

RECURSIVE SortAscending(_)
SortAscending(S) ==
    IF S = {} THEN <<>>
    ELSE LET m == CHOOSE x \in S : \A y \in S : x <= y
         IN  <<m>> \o SortAscending(S \ {m})

\* pd.Series(rows).value_counts().sort_index().reset_index()
value_counts_sort_index(rows) ==
    LET years == SortAscending({rows[i] : i \in 1..Len(rows)})
    IN  [k \in 1..Len(years) |->
            [Year |-> years[k],
             Reports |-> Cardinality({i \in 1..Len(rows) : rows[i] = years[k]})]]

get_timeline(r, results, now) ==
    LET c == _call(r, results)
    IN  IF Truthy(c.err) \/ c.data = <<>>
        THEN [rows |-> <<>>, err |-> c.err]
        ELSE IF Uncaught(c.data, now) # None
        THEN [rows |-> <<>>, err |-> "raised: " \o Uncaught(c.data, now)]
        ELSE IF YearRows(c.data, now) = <<>>
        THEN [rows |-> <<>>, err |-> "no_data"]
        ELSE [rows |-> value_counts_sort_index(YearRows(c.data, now)), err |-> None]

----------------------------------------------------------------------------
(* get_geo *)

\* no `if coords:` guard: an unmapped code gets a row at (0, 0)
GeoRows_KeepUnmapped(results) ==
    [i \in 1..Len(results) |->
        LET iso2 == Upper(results[i].term)
        IN  [country |-> iso2,
             name    |-> IF iso2 \in DOMAIN ISO2_TO_NAME THEN ISO2_TO_NAME[iso2] ELSE iso2,
             Reports |-> results[i].count,
             lat     |-> IF iso2 \in DOMAIN ISO2_COORDS THEN ISO2_COORDS[iso2][1] ELSE 0,
             lon     |-> IF iso2 \in DOMAIN ISO2_COORDS THEN ISO2_COORDS[iso2][2] ELSE 0]]

GeoRows(results) ==
    LET mapped == SelectSeq(results, LAMBDA item : Upper(item.term) \in DOMAIN ISO2_COORDS)
    IN  [i \in 1..Len(mapped) |->
            LET iso2   == Upper(mapped[i].term)
                coords == ISO2_COORDS[iso2]
            IN  [country |-> iso2,
                 name    |-> IF iso2 \in DOMAIN ISO2_TO_NAME THEN ISO2_TO_NAME[iso2] ELSE iso2,
                 Reports |-> mapped[i].count,
                 lat     |-> coords[1],
                 lon     |-> coords[2]]]

get_geo(r, results) ==
    LET c == _call(r, results)
    IN  IF Truthy(c.err) \/ c.data = <<>>
        THEN [rows |-> <<>>, err |-> c.err]
        ELSE IF GeoRows(c.data) = <<>>
        THEN [rows |-> <<>>, err |-> "no_data"]
        ELSE [rows |-> GeoRows(c.data), err |-> None]

----------------------------------------------------------------------------
(* Bounds and the upstream answers the model draws from *)

MaxRows    == 9     \* rows of a reaction aggregate
MaxRecords == 3     \* raw event records of a timeline answer
MaxItems   == 3     \* rows of a country aggregate

QueryTypes == {"reactions", "timeline", "geo"}

ReactionChoices ==
    { [term |-> "NAUSEA", count |-> 2],
      [term |-> "RASH", count |-> 1],
      [term |-> "OFF LABEL USE", count |-> 3] }

DateChoices ==
    { JStr("20240315"), JStr("20230101"), JStr("20250704"), JStr("1999"),
      JStr("18990101"), JStr("2O240101"), JNull, JNum, JAbsent }

GeoChoices ==
    { [term |-> "US", count |-> 10], [term |-> "ZZ", count |-> 10],
      [term |-> "za", count |-> 5], [term |-> "NO", count |-> 7] }

RowChoices(q) ==
    IF q = "reactions" THEN ReactionChoices
    ELSE IF q = "timeline" THEN DateChoices ELSE GeoChoices

MaxLen(q) ==
    IF q = "reactions" THEN MaxRows
    ELSE IF q = "timeline" THEN MaxRecords ELSE MaxItems

FinalOutcomes ==
    { Response(200), Response(404), Response(429), Response(503),
      Raised("Read timed out.") }

CurrentYears == {2024, 2025}

NoResult == [rows |-> <<>>, err |-> None]

----------------------------------------------------------------------------
(* Idle values of the parts a specification does not exercise *)

NoOutcome == [kind |-> "none", status |-> 0, detail |-> "", ra |-> FALSE]

IdleFetch ==
    /\ qtype = "reactions" /\ resp = Response(0) /\ data = <<>>
    /\ year_read = 0 /\ pc_f = "idle" /\ out = NoResult

IdleCall ==
    /\ pc = "idle" /\ total = 0 /\ sent = 0 /\ waited = 0
    /\ last = NoOutcome /\ resent_after = NoOutcome /\ all503 = TRUE
    /\ ret = [data |-> <<>>, err |-> None]

IdleCache ==
    /\ clock = 0 /\ cache = <<>> /\ lastcomp = <<>> /\ lastcall = <<>>
    /\ calls = 0 /\ ev = <<>>

----------------------------------------------------------------------------
(* SpecFetch: one fetcher applied to one upstream answer *)

InitFetch ==
    /\ qtype \in QueryTypes
    /\ resp \in FinalOutcomes
    /\ data = <<>>
    /\ year_read = 0
    /\ pc_f = "upstream"
    /\ out = NoResult
    /\ IdleCall /\ IdleCache

\* the upstream adds one more row to the "results" of its 200 answer
UpstreamRow ==
    /\ pc_f = "upstream"
    /\ resp = Response(200)
    /\ Len(data) < MaxLen(qtype)
    /\ \E row \in RowChoices(qtype) : data' = Append(data, row)
    /\ UNCHANGED <<qtype, resp, year_read, pc_f, out, call_vars, cache_vars>>

FetchReactions ==
    /\ pc_f = "upstream" /\ qtype = "reactions"
    /\ out' = get_reactions(resp, data)
    /\ pc_f' = "returned"
    /\ UNCHANGED <<qtype, resp, data, year_read, call_vars, cache_vars>>

FetchTimeline ==
    /\ pc_f = "upstream" /\ qtype = "timeline"
    /\ \E now \in CurrentYears :
          /\ year_read' = now
          /\ out' = get_timeline(resp, data, now)
    /\ pc_f' = "returned"
    /\ UNCHANGED <<qtype, resp, data, call_vars, cache_vars>>

FetchGeo ==
    /\ pc_f = "upstream" /\ qtype = "geo"
    /\ out' = get_geo(resp, data)
    /\ pc_f' = "returned"
    /\ UNCHANGED <<qtype, resp, data, year_read, call_vars, cache_vars>>

NextFetch == UpstreamRow \/ FetchReactions \/ FetchTimeline \/ FetchGeo

SpecFetch == InitFetch /\ [][NextFetch]_vars

----------------------------------------------------------------------------
(* Properties of the fetchers, checked under SpecFetch *)

Returned(q) == pc_f = "returned" /\ qtype = q

\* the exclusion set, upper-cased, for case-insensitive comparison
UpperExcluded == {Upper(e) : e \in NON_SIDE_EFFECTS}
MatchesExcluded(name) == Upper(name) \in UpperExcluded

\* the upstream rows whose name matches no excluded entry, in arrival order
Survivors == SelectSeq(data, LAMBDA row : ~MatchesExcluded(row.term))

Descending(counts) == \A i \in 1..Len(counts) - 1 : counts[i] >= counts[i + 1]
DataCounts == [i \in 1..Len(data) |-> data[i].count]
OutReports == [i \in 1..Len(out.rows) |-> out.rows[i].Reports]

Min(a, b) == IF a < b THEN a ELSE b

\* C1: no row returned by get_reactions carries a reaction name that
\* matches, ignoring case, an entry of NON_SIDE_EFFECTS.
C1_NoExcludedReaction ==
    Returned("reactions") =>
        \A i \in 1..Len(out.rows) : ~MatchesExcluded(out.rows[i].Reaction)

\* an answer holding an excluded name was filtered and rows were returned
C1_Witness ==
    /\ Returned("reactions")
    /\ \E i \in 1..Len(data) : MatchesExcluded(data[i].term)
    /\ out.rows # <<>>

\* C2 as stated: whatever the arrival order, the rows are in descending
\* order of Reports, number at most 8, and are exactly the survivors when
\* fewer than 8 survive.
C2_SortedWhateverTheOrder ==
    Returned("reactions") /\ resp = Response(200) =>
        /\ Descending(OutReports)
        /\ Len(out.rows) <= 8
        /\ (Len(Survivors) < 8 => Len(out.rows) = Len(Survivors))

\* C2 amended: the rows are the first min(8, n) of the n survivors, in
\* arrival order and unpadded; they are in descending order of Reports
\* whenever the upstream rows arrived in descending order of count.
C2_FirstEightInArrivalOrder ==
    Returned("reactions") /\ resp = Response(200) =>
        LET surv == Survivors
        IN  /\ Len(out.rows) = Min(8, Len(surv))
            /\ \A i \in 1..Len(out.rows) :
                  /\ out.rows[i].Reports = surv[i].count
                  /\ Upper(out.rows[i].Reaction) = Upper(surv[i].term)
            /\ (Descending(DataCounts) => Descending(OutReports))

\* more than 8 rows survived, arrived in descending order, and 8 came back
C2_Witness ==
    /\ Returned("reactions")
    /\ Len(Survivors) > 8
    /\ Descending(DataCounts)
    /\ \E i \in 1..Len(data) : data[i].count # data[1].count
    /\ Len(out.rows) = 8

\* the year of a record whose receivedate is a string of exactly 8
\* characters starting with 4 digits; -1 for any other record
DatedYear(record) ==
    IF /\ record.t = "str"
       /\ Len(record.s) = 8
       /\ \A k \in 1..4 : SubSeq(record.s, k, k) \in DigitChars
    THEN 1000 * DigitValue[SubSeq(record.s, 1, 1)] + 100 * DigitValue[SubSeq(record.s, 2, 2)]
           + 10 * DigitValue[SubSeq(record.s, 3, 3)] + DigitValue[SubSeq(record.s, 4, 4)]
    ELSE -1

InRange(year) == 2000 <= year /\ year <= year_read

\* C3: get_timeline's rows have strictly increasing years, each within
\* [2000, current year], each counting exactly the records dated in that
\* year; every other record is dropped and raises nothing.
C3_YearlyCounts ==
    Returned("timeline") /\ resp = Response(200) =>
        /\ out.err \in {None, "no_data"}
        /\ \A i \in 1..Len(out.rows) - 1 : out.rows[i].Year < out.rows[i + 1].Year
        /\ \A i \in 1..Len(out.rows) :
              /\ InRange(out.rows[i].Year)
              /\ out.rows[i].Reports =
                    Cardinality({j \in 1..Len(data) : DatedYear(data[j]) = out.rows[i].Year})
        /\ \A j \in 1..Len(data) :
              InRange(DatedYear(data[j])) =>
                  /\ out.err = None
                  /\ \E i \in 1..Len(out.rows) : out.rows[i].Year = DatedYear(data[j])

\* a null date, an unparsable date and a valid date in one answer
C3_Witness ==
    /\ Returned("timeline")
    /\ \E j \in 1..Len(data) : data[j] = JNull
    /\ \E j \in 1..Len(data) : data[j] = JStr("2O240101")
    /\ \E j \in 1..Len(data) : InRange(DatedYear(data[j]))
    /\ Len(out.rows) = 1

RECURSIVE SumOf(_)
SumOf(counts) == IF counts = <<>> THEN 0 ELSE Head(counts) + SumOf(Tail(counts))

MappedItems == SelectSeq(data, LAMBDA item : Upper(item.term) \in DOMAIN ISO2_COORDS)

\* C4: every row of get_geo has a code of the coordinate table and that
\* table's coordinates; an item whose code has no coordinates gives no row
\* and adds nothing to the total; a code without a display name is shown
\* under the code itself.
C4_MappedRowsOnly ==
    Returned("geo") /\ resp = Response(200) =>
        /\ \A i \in 1..Len(out.rows) :
              /\ out.rows[i].country \in DOMAIN ISO2_COORDS
              /\ out.rows[i].lat = ISO2_COORDS[out.rows[i].country][1]
              /\ out.rows[i].lon = ISO2_COORDS[out.rows[i].country][2]
              /\ out.rows[i].name =
                    IF out.rows[i].country \in DOMAIN ISO2_TO_NAME
                    THEN ISO2_TO_NAME[out.rows[i].country]
                    ELSE out.rows[i].country
        /\ Len(out.rows) = Len(MappedItems)
        /\ SumOf([i \in 1..Len(out.rows) |-> out.rows[i].Reports])
              = SumOf([i \in 1..Len(MappedItems) |-> MappedItems[i].count])

\* an unmapped code was dropped and a nameless code shown under its code
C4_Witness ==
    /\ Returned("geo")
    /\ \E j \in 1..Len(data) : data[j].term = "ZZ"
    /\ \E i \in 1..Len(out.rows) : out.rows[i].name = out.rows[i].country
    /\ \E i \in 1..Len(out.rows) : out.rows[i].name = "United States"

\* C9 as stated: a successful upstream answer that ends in an empty row
\* sequence carries the error "no_data", for each of the three fetchers.
C9_EmptyMeansNoData ==
    pc_f = "returned" /\ resp = Response(200) /\ out.rows = <<>> =>
        out.err = "no_data"

----------------------------------------------------------------------------
(* SpecCall: one invocation of _call, request by request.                  *)
(* SESSION.get(BASE, params, timeout=20) runs under                        *)
(* Retry(total=4, backoff_factor=1, status_forcelist=[500,502,503,504],    *)
(*       allowed_methods=["GET"], raise_on_status=False)                   *)

TIMEOUT     == 20
RETRY_TOTAL == 4
STATUS_FORCELIST == {500, 502, 503, 504}
\* Retry's defaults: respect_retry_after_header = True on these statuses
RETRY_AFTER_STATUS_CODES == {413, 429, 503}

Answer(status, ra) == [kind |-> "response", status |-> status, detail |-> "", ra |-> ra]
Failure(detail)    == [kind |-> "exception", status |-> 0, detail |-> detail, ra |-> FALSE]

Statuses == {200, 400, 404, 413, 429, 500, 502, 503, 504}
TransportFailures == {"Connection reset by peer", "Name or service not known"}
Bodies == { <<>>, <<[term |-> "NAUSEA", count |-> 2]>> }

\* Retry.is_retry for a GET
is_retry(t, status, has_retry_after) ==
    \/ status \in STATUS_FORCELIST
    \/ t # 0 /\ has_retry_after /\ status \in RETRY_AFTER_STATUS_CODES

\* a Retry whose budget stops one retry early
is_exhausted_early(t) == t <= 0

\* Retry.is_exhausted for the total left after increment()
is_exhausted(t) == t < 0

\* a request that is sent without a timeout never times out
TimedOut_Never(w) == FALSE

\* the timeout=20 of SESSION.get has run out for the pending request
TimedOut(w) == w >= TIMEOUT

InitCall ==
    /\ pc = "idle" /\ total = RETRY_TOTAL /\ sent = 0 /\ waited = 0
    /\ last = NoOutcome /\ resent_after = NoOutcome /\ all503 = TRUE
    /\ ret = [data |-> <<>>, err |-> None]
    /\ IdleFetch /\ IdleCache

\* _call is entered and SESSION.get puts the first request on the wire
Send ==
    /\ pc = "idle"
    /\ pc' = "waiting" /\ sent' = 1 /\ waited' = 0
    /\ UNCHANGED <<total, last, resent_after, all503, ret, fetch_vars, cache_vars>>

\* a second passes with the request unanswered
Tick ==
    /\ pc = "waiting" /\ waited < TIMEOUT
    /\ waited' = waited + 1
    /\ UNCHANGED <<pc, total, sent, last, resent_after, all503, ret, fetch_vars, cache_vars>>

\* urlopen's handling of an attempt's outcome o: retry it (increment, then
\* sleep) or leave urlopen, with the response or with MaxRetryError, for
\* _call to turn into its return value
Settle(o, results) ==
    LET retry == IF o.kind = "response" THEN is_retry(total, o.status, o.ra) ELSE TRUE
    IN  /\ last' = o
        /\ all503' = (all503 /\ o.kind = "response" /\ o.status = 503)
        /\ IF retry /\ ~is_exhausted(total - 1)
           THEN /\ total' = total - 1
                /\ pc' = "backoff"
                /\ UNCHANGED ret
           ELSE /\ pc' = "done"
                /\ ret' = _call(o, results)
                /\ UNCHANGED total
        /\ UNCHANGED <<sent, waited, resent_after, fetch_vars, cache_vars>>

\* the upstream answers the pending request before the timeout
Respond ==
    /\ pc = "waiting" /\ ~TimedOut(waited)
    /\ \E status \in Statuses, ra \in BOOLEAN, results \in Bodies :
          /\ results # <<>> => status = 200
          /\ Settle(Answer(status, ra), results)

\* the connection fails: reset, DNS failure
TransportError ==
    /\ pc = "waiting" /\ ~TimedOut(waited)
    /\ \E detail \in TransportFailures : Settle(Failure(detail), <<>>)

\* nothing arrived within the timeout
TimeoutFires ==
    /\ pc = "waiting" /\ TimedOut(waited)
    /\ Settle(Failure("Read timed out."), <<>>)

\* the sleep before a retry is over and the request is sent again
Resend ==
    /\ pc = "backoff"
    /\ pc' = "waiting" /\ sent' = sent + 1 /\ waited' = 0
    /\ resent_after' = last
    /\ UNCHANGED <<total, last, all503, ret, fetch_vars, cache_vars>>

NextCall == Send \/ Tick \/ Respond \/ TransportError \/ TimeoutFires \/ Resend

SpecCall == InitCall /\ [][NextCall]_vars

\* The timer and the bounded sleep are the program's own steps; the
\* upstream owes nothing.
SpecCallFair ==
    /\ SpecCall
    /\ WF_vars(Tick) /\ WF_vars(TimeoutFires) /\ WF_vars(Resend)

----------------------------------------------------------------------------
(* Properties of _call, checked under SpecCall and SpecCallFair *)

Done == pc = "done"

\* C7 as stated: at most 4 requests per invocation; a re-send follows only
\* a 500, 502, 503 or 504 response, never a 4xx one; 4 attempts answered
\* 503 end in ([], "server_error_503").
C7_AtMostFourRequests ==
    /\ sent <= 4
    /\ resent_after.kind = "response" => resent_after.status \in {500, 502, 503, 504}
    /\ Done /\ all503 => sent = 4 /\ ret = [data |-> <<>>, err |-> "server_error_503"]

\* C7 amended: at most 5 requests per invocation (the first and 4
\* retries); a re-send that follows a response follows a 500, 502, 503 or
\* 504, or a 429 or 503 that carries Retry-After, and no other 4xx; 5
\* attempts answered 503 end in ([], "server_error_503").
C7_AtMostFiveRequests ==
    /\ sent <= 5
    /\ resent_after.kind = "response" =>
          \/ resent_after.status \in {500, 502, 503, 504}
          \/ resent_after.ra /\ resent_after.status \in {413, 429, 503}
    /\ Done /\ all503 => sent = 5 /\ ret = [data |-> <<>>, err |-> "server_error_503"]

\* all 5 attempts were answered 503 and _call has returned
C7_Witness == Done /\ all503 /\ sent = 5

\* C8 as stated: _call returns one of (results, None) on success,
\* ([], "no_data") on not-found, ([], "server_error_<code>") on a 5xx
\* status and only then, ([], "network_error: <detail>") on a transport
\* failure.
C8_FourTaggedResults ==
    Done =>
        \/ last.kind = "response" /\ last.status = 200 /\ ret.err = None
        \/ last.kind = "response" /\ last.status = 404
              /\ ret = [data |-> <<>>, err |-> "no_data"]
        \/ last.kind = "response" /\ last.status \in 500..599
              /\ ret = [data |-> <<>>, err |-> "server_error_" \o ToString(last.status)]
        \/ last.kind = "exception"
              /\ ret = [data |-> <<>>, err |-> "network_error: " \o last.detail]

\* C10: an invocation that has sent its request resolves, whatever the
\* upstream does: answer, keep failing, or never answer.
C10_EveryCallResolves == (pc \in {"waiting", "backoff"}) ~> Done

\* the upstream never answered: 5 timeouts, then the error value
C10_Witness ==
    /\ Done /\ sent = 5
    /\ last = Failure("Read timed out.") /\ resent_after = Failure("Read timed out.")
    /\ ret.err = "network_error: Read timed out."

----------------------------------------------------------------------------
(* SpecCache: the three fetchers behind @st.cache_data(ttl=600), called    *)
(* again and again as the script reruns.  Each decorated function has its  *)
(* own cache, keyed by its argument; an entry is valid while the clock is  *)
(* before its expiry, ttl seconds after it was stored.                     *)

TTL == 600

MaxCalls == 3       \* calls of the fetchers in one run of the model
MaxClock == 602     \* seconds of wall-clock time the model lets pass

Terms == {"semaglutide", "apixaban"}
Keys  == QueryTypes \X Terms
TickSteps == {300, 301}

\* final upstream answers (outcome of SESSION.get and "results") per fetcher
Upstream(q) ==
    IF q = "reactions"
    THEN { [r |-> Response(200), results |-> <<[term |-> "NAUSEA", count |-> 2]>>],
           [r |-> Response(503), results |-> <<>>] }
    ELSE IF q = "timeline"
    THEN { [r |-> Response(200), results |-> <<JStr("20240315")>>],
           [r |-> Raised("Read timed out."), results |-> <<>>] }
    ELSE { [r |-> Response(200), results |-> <<[term |-> "US", count |-> 10]>>],
           [r |-> Response(404), results |-> <<>>] }

\* the body of the decorated function q
Fetch(q, up) ==
    IF q = "reactions" THEN get_reactions(up.r, up.results)
    ELSE IF q = "timeline"
    THEN get_timeline(up.r, up.results, CHOOSE y \in CurrentYears : \A z \in CurrentYears : y >= z)
    ELSE get_geo(up.r, up.results)

NoEntry == [val |-> NoResult, expires |-> -1]
NoCall  == [time |-> -1, res |-> NoResult]
NoUp    == [r |-> Response(0), results |-> <<>>]

\* an entry that never expires
Fresh_Forever(entry, t) == entry.expires >= 0

\* the entry is present and the clock is before its expiry
Fresh(entry, t) == entry.expires >= 0 /\ t < entry.expires

\* a cache that keeps successful results only
Stored_SuccessOnly(c, key, val, t) ==
    IF val.err = None THEN [c EXCEPT ![key] = [val |-> val, expires |-> t + TTL]] ELSE c

\* the returned value, error included, replaces the key's entry
Stored(c, key, val, t) == [c EXCEPT ![key] = [val |-> val, expires |-> t + TTL]]

InitCache ==
    /\ clock = 0
    /\ cache = [k \in Keys |-> NoEntry]
    /\ lastcomp = [k \in Keys |-> NoCall]
    /\ lastcall = [k \in Keys |-> NoCall]
    /\ calls = 0
    /\ ev = [key |-> <<"reactions", "semaglutide">>, time |-> -1, result |-> NoResult,
             fetched |-> FALSE, up |-> NoUp, prev_call |-> NoCall, prev_comp |-> NoCall]
    /\ IdleFetch /\ IdleCall

\* wall-clock time passes between two reruns
Elapse ==
    /\ \E d \in TickSteps : clock + d <= MaxClock /\ clock' = clock + d
    /\ UNCHANGED <<cache, lastcomp, lastcall, calls, ev, fetch_vars, call_vars>>

\* one cache shared by the three fetchers, keyed by the term alone
CacheKey_TermOnly(q, term) == <<"reactions", term>>

\* each decorated function has its own cache, keyed by its argument
CacheKey(q, term) == <<q, term>>

\* One call of decorated fetcher q with `term`, against an upstream that
\* would answer `up`: the valid entry is returned untouched, otherwise the
\* body runs (one _call) and its return value is stored.
Query(q, term, up) ==
    LET key    == <<q, term>>
        slot   == CacheKey(q, term)
        hit    == Fresh(cache[slot], clock)
        result == IF hit THEN cache[slot].val ELSE Fetch(q, up)
    IN  /\ calls < MaxCalls
        /\ calls' = calls + 1
        /\ cache' = IF hit THEN cache ELSE Stored(cache, slot, result, clock)
        /\ ev' = [key |-> key, time |-> clock, result |-> result, fetched |-> ~hit,
                  up |-> up, prev_call |-> lastcall[key], prev_comp |-> lastcomp[key]]
        /\ lastcall' = [lastcall EXCEPT ![key] = [time |-> clock, res |-> result]]
        /\ lastcomp' = IF hit THEN lastcomp
                       ELSE [lastcomp EXCEPT ![key] = [time |-> clock, res |-> result]]
        /\ UNCHANGED <<clock, fetch_vars, call_vars>>

CallReactions == \E term \in Terms, up \in Upstream("reactions") : Query("reactions", term, up)
CallTimeline  == \E term \in Terms, up \in Upstream("timeline") : Query("timeline", term, up)
CallGeo       == \E term \in Terms, up \in Upstream("geo") : Query("geo", term, up)

NextCache == Elapse \/ CallReactions \/ CallTimeline \/ CallGeo

SpecCache == InitCache /\ [][NextCache]_vars

----------------------------------------------------------------------------
(* Properties of the cache, checked under SpecCache *)

Called == calls > 0
SinceCall == ev.time - ev.prev_call.time
SinceComputation == ev.time - ev.prev_comp.time

\* C5 as stated: a call less than 10 minutes after an earlier call of the
\* same query and term returns that call's result, error included, and
\* makes no network request.
C5_SameAsAnyEarlierCall ==
    Called /\ ev.prev_call.time >= 0 /\ SinceCall < 600 =>
        ev.result = ev.prev_call.res /\ ~ev.fetched

\* C5 amended: a call less than 10 minutes after the call that computed
\* the entry (the latest one that went to the network) returns that
\* call's result, error included, and makes no network request.
C5_SameAsComputingCall ==
    Called /\ ev.prev_comp.time >= 0 /\ SinceComputation < 600 =>
        ev.result = ev.prev_comp.res /\ ~ev.fetched

\* a cached failure was returned while the upstream had recovered
C5_Witness ==
    /\ Called /\ ev.prev_comp.time >= 0 /\ SinceComputation \in 1..599
    /\ ev.result.err = "server_error_503"
    /\ ev.up.r = Response(200)
    /\ ~ev.fetched

\* C6: a call more than 10 minutes after the computation that filled the
\* entry goes to the network and returns what that request yields.
C6_FreshAfterTenMinutes ==
    Called /\ ev.prev_comp.time >= 0 /\ SinceComputation > 600 =>
        ev.fetched /\ ev.result = Fetch(ev.key[1], ev.up)

\* an expired entry was replaced by a different, fresh result
C6_Witness ==
    /\ Called /\ ev.prev_comp.time >= 0 /\ SinceComputation > 600
    /\ ev.fetched
    /\ ev.result # ev.prev_comp.res
    /\ cache[ev.key].val = ev.result

\* the entry the key's own computing calls account for
OwnEntry(k) ==
    IF lastcomp[k].time >= 0
    THEN [val |-> lastcomp[k].res, expires |-> lastcomp[k].time + 600]
    ELSE NoEntry

\* C11: the result of a call depends only on its own query type and term:
\* it is the result of the latest computation for that very key when that
\* is less than 10 minutes old, and otherwise what the fetcher makes of the
\* upstream's answer to this query; and every key's cache entry is the one
\* its own computations left, whatever was called, cached or failed for
\* the other query types and terms in between.
C11_QueriesIndependent ==
    /\ Called =>
          ev.result =
              IF ev.prev_comp.time >= 0 /\ SinceComputation < 600
              THEN ev.prev_comp.res
              ELSE Fetch(ev.key[1], ev.up)
    /\ \A k \in Keys : cache[k] = OwnEntry(k)

\* with a failure of the reaction query and a no_data of the geo query
\* freshly cached for the same term, the timeline query went to the
\* network and returned its own rows
C11_Witness ==
    /\ Called /\ ev.key[1] = "timeline"
    /\ ev.fetched /\ ev.result.err = None /\ ev.result.rows # <<>>
    /\ Fresh(cache[<<"reactions", ev.key[2]>>], clock)
    /\ cache[<<"reactions", ev.key[2]>>].val.err = "server_error_503"
    /\ Fresh(cache[<<"geo", ev.key[2]>>], clock)
    /\ cache[<<"geo", ev.key[2]>>].val.err = "no_data"

=============================================================================
